---- MODULE Spec2Model ----
(***************************************************************************)
(* Model of the gomoku board and turn machine of src/main.rs:              *)
(*   Board      (cells, chesses, geometry, the three render caches)        *)
(*   GomokuGame (board, state) and its update handler.                     *)
(* f32 fields hold whole numbers in every configuration the program builds *)
(* (45.0, 48.0, 42.0, 2.0), so they are modelled as integers; pointer      *)
(* positions are restricted to whole pixels.                               *)
(***************************************************************************)
EXTENDS Integers, Sequences, FiniteSets, TLC

VARIABLES board, state, panic, last, undone, probe

vars == <<board, state, panic, last, undone, probe>>

----------------------------------------------------------------------------
(* Bounds of the exploration. *)

\* Longest move history explored.
MaxChesses == 3

\* How far past the board's last index, column and row the pure functions
\* are probed.
MaxBeyond == 2

\* Half-width, in pixels, of the window explored around each grid line.
PixelWindow == 24

----------------------------------------------------------------------------
(* Inputs. *)

\* Message::ClickBoard(usize) / put_chess index arguments that are tried:
\* cells (1, 1) and (5, 1), the last cell (224), the first index past the
\* board (225) and pos_to_index((15, 15)) = 240.
Indices == {16, 20, 224, 225, 240}

\* Grid lines around which pointer positions are tried: the rejected line 0,
\* the first accepted line, the last drawn line (14), the one-past-the-end
\* line that valid_pos still accepts (15) and the first line it rejects (16).
PixelLines == {0, 1, 2, 14, 15, 16}

----------------------------------------------------------------------------
(* Board: construction and pure helpers. *)

\* Option<T>
None == [some |-> FALSE]

Some(v) == [some |-> TRUE, value |-> v]

\* Point<usize>
Point(x, y) == [x |-> x, y |-> y]

\* Result of a Board method that may panic: the board it leaves and the panic.
Ok(b) == [board |-> b, panic |-> "none"]

Panic(b, what) == [board |-> b, panic |-> what]

Board_new(padding, cell_size, chess_size, line_width) ==
    LET cells_per_row == 15
        grid_size == (cells_per_row - 1) * cell_size + line_width
    IN  [padding       |-> padding,
         cell_size     |-> cell_size,
         chess_size    |-> chess_size,
         line_width    |-> line_width,
         grid_size     |-> grid_size,
         cells_per_row |-> cells_per_row,
         cells         |-> [i \in 0..(cells_per_row * cells_per_row - 1) |-> "Empty"],
         chesses       |-> <<>>,
         chesses_cache |-> "cleared",
         grid_cache    |-> "cleared",
         overlay_cache |-> "cleared"]

Board_default == Board_new(45, 48, 42, 2)

valid_index(b, index) == index < b.cells_per_row * b.cells_per_row

valid_pos(b, col, row) == col <= b.cells_per_row /\ row <= b.cells_per_row

\* index_to_pos with column and row exchanged.
index_to_pos_transposed(b, index) ==
    Point(index \div b.cells_per_row, index % b.cells_per_row)

index_to_pos(b, index) == Point(index % b.cells_per_row, index \div b.cells_per_row)

\* pos_to_index with column and row exchanged.
pos_to_index_transposed(b, pos) == pos.y + pos.x * b.cells_per_row

pos_to_index(b, pos) == pos.x + pos.y * b.cells_per_row

\* is_empty_at without the occupancy test.
is_empty_at_ignores_occupancy(b, index) == index < b.cells_per_row * b.cells_per_row

is_empty_at(b, index) == valid_index(b, index) /\ b.cells[index] = "Empty"

\* Whole-pixel pointer coordinates (cursor.position_in(bounds) is >= 0): a few
\* pixels at the origin, and a window around each line of PixelLines.
Pixels ==
    LET b == Board_default
        line(k) == b.padding + b.cell_size * k
    IN  {p \in 0..(line(b.cells_per_row + 1) + PixelWindow) :
            \/ p <= 4
            \/ \E k \in PixelLines : p - line(k) \in (0 - PixelWindow)..PixelWindow}

\* Grid lines at which pointer presses are tried: the rejected line 0, the
\* first accepted line, the last drawn line and the one-past-the-end line.
PressLines == {0, 1, 14, 15}

\* Coordinates of pointer presses: the lines of PressLines, and the middle
\* between lines 1 and 2, which is outside every tolerance disc.
PressCoords ==
    LET b == Board_default
    IN  {b.padding + b.cell_size * k : k \in PressLines}
            \cup {b.padding + b.cell_size + b.cell_size \div 2}

----------------------------------------------------------------------------
(* Board: mutating methods.  Each returns the board it leaves and the panic *)
(* it raised ("none" when it returned normally).                           *)

\* put_chess that stores the opposite color in the cell.
put_chess_wrong_cell_color(b, index, is_black) ==
    IF index < b.cells_per_row * b.cells_per_row
    THEN Ok([b EXCEPT !.chesses = Append(b.chesses,
                                         [pos |-> Point(index % b.cells_per_row,
                                                        index \div b.cells_per_row),
                                          color |-> IF is_black THEN "Black" ELSE "White"]),
                      !.cells[index] = IF is_black THEN "White" ELSE "Black",
                      !.chesses_cache = "cleared",
                      !.overlay_cache = "cleared"])
    ELSE Panic(b, "put_chess: index out of range")

\* put_chess that records the move before it checks the index.
put_chess_checks_late(b, index, is_black) ==
    LET pushed == Append(b.chesses,
                         [pos |-> Point(index % b.cells_per_row,
                                        index \div b.cells_per_row),
                          color |-> IF is_black THEN "Black" ELSE "White"])
    IN  IF index < b.cells_per_row * b.cells_per_row
        THEN Ok([b EXCEPT !.chesses = pushed,
                          !.cells[index] = IF is_black THEN "Black" ELSE "White",
                          !.chesses_cache = "cleared",
                          !.overlay_cache = "cleared"])
        ELSE Panic([b EXCEPT !.chesses = pushed], "put_chess: index out of range")

\* put_chess that returns without effect when the cell is occupied.
put_chess_rejects_occupied(b, index, is_black) ==
    IF index < b.cells_per_row * b.cells_per_row
    THEN IF b.cells[index] = "Empty"
         THEN Ok([b EXCEPT !.chesses = Append(b.chesses,
                                              [pos |-> Point(index % b.cells_per_row,
                                                             index \div b.cells_per_row),
                                               color |-> IF is_black THEN "Black" ELSE "White"]),
                           !.cells[index] = IF is_black THEN "Black" ELSE "White",
                           !.chesses_cache = "cleared",
                           !.overlay_cache = "cleared"])
         ELSE Ok(b)
    ELSE Panic(b, "put_chess: index out of range")

put_chess(b, index, is_black) ==
    IF valid_index(b, index)
    THEN LET grid_pos == index_to_pos(b, index)
             pushed == Append(b.chesses,
                              [pos |-> grid_pos,
                               color |-> IF is_black THEN "Black" ELSE "White"])
         IN  Ok([b EXCEPT !.chesses = pushed,
                          !.cells[index] = IF is_black THEN "Black" ELSE "White",
                          !.chesses_cache = "cleared",
                          !.overlay_cache = "cleared"])
    ELSE Panic(b, "put_chess: index out of range")

\* remove_last_chess that pops the move and leaves its cell occupied.
remove_last_chess_keeps_cell(b) ==
    IF Len(b.chesses) > 0
    THEN Ok([b EXCEPT !.chesses = SubSeq(b.chesses, 1, Len(b.chesses) - 1),
                      !.chesses_cache = "cleared",
                      !.overlay_cache = "cleared"])
    ELSE Panic(b, "remove_last_chess: chesses is empty")

\* remove_last_chess that returns quietly on an empty history.
remove_last_chess_ignores_empty(b) ==
    IF Len(b.chesses) > 0
    THEN LET chess == b.chesses[Len(b.chesses)]
             index == chess.pos.x + chess.pos.y * b.cells_per_row
         IN  Ok([b EXCEPT !.chesses = SubSeq(b.chesses, 1, Len(b.chesses) - 1),
                          !.cells[index] = "Empty",
                          !.chesses_cache = "cleared",
                          !.overlay_cache = "cleared"])
    ELSE Ok(b)

\* remove_last_chess that takes the first move of the history, not the last.
remove_last_chess_takes_first(b) ==
    IF Len(b.chesses) > 0
    THEN LET chess == b.chesses[1]
             index == chess.pos.x + chess.pos.y * b.cells_per_row
         IN  Ok([b EXCEPT !.chesses = SubSeq(b.chesses, 2, Len(b.chesses)),
                          !.cells[index] = "Empty",
                          !.chesses_cache = "cleared",
                          !.overlay_cache = "cleared"])
    ELSE Panic(b, "remove_last_chess: chesses is empty")

remove_last_chess(b) ==
    IF Len(b.chesses) > 0
    THEN LET chess == b.chesses[Len(b.chesses)]
             popped == [b EXCEPT !.chesses = SubSeq(b.chesses, 1, Len(b.chesses) - 1)]
             index == pos_to_index(b, chess.pos)
         IN  IF index \in DOMAIN b.cells
             THEN Ok([popped EXCEPT !.cells[index] = "Empty",
                                    !.chesses_cache = "cleared",
                                    !.overlay_cache = "cleared"])
             ELSE Panic(popped, "cells: index out of bounds")
    ELSE Panic(b, "remove_last_chess: chesses is empty")

\* clear that empties the cells and keeps the move history.
clear_keeps_history(b) ==
    Ok([Board_new(b.padding, b.cell_size, b.chess_size, b.line_width)
           EXCEPT !.chesses = b.chesses])

clear(b) == Ok(Board_new(b.padding, b.cell_size, b.chess_size, b.line_width))

\* Board::draw fills the three caches (Cache::draw stores the geometry it
\* built unless the cache already holds one); nothing else changes.
draw(b) ==
    [b EXCEPT !.grid_cache = "filled",
              !.chesses_cache = "filled",
              !.overlay_cache = "filled"]

----------------------------------------------------------------------------
(* Board::grid_pos, the pixel -> grid hit test. *)

\* (a / d).round() as i32 for whole a and d > 0: f32::round rounds half away
\* from zero.  a / d is a half-integer only when it is one exactly, and every
\* other quotient is further from a half-integer than f32 rounding can move it.
f32_round_div(a, d) ==
    IF a >= 0 THEN (2 * a + d) \div (2 * d)
              ELSE 0 - ((2 * (0 - a) + d) \div (2 * d))

\* dis * 2.0 > cell_size * dis_scale, where dis = hypot(dx, dy) for whole dx,
\* dy and dis_scale = num / den.  Both sides are positive, so the comparison
\* is the comparison of their squares; for cell_size 48 and dis_scale 0.6 the
\* f32 product is 28.800001 and 2 * hypot is either <= 28.78 (dx^2 + dy^2 <=
\* 207) or >= 28.84 (>= 208), so f32 rounding does not change the outcome.
f32_too_far(dx, dy, cell_size, dis_scale) ==
    4 * (dx * dx + dy * dy) * dis_scale.den * dis_scale.den
        > cell_size * cell_size * dis_scale.num * dis_scale.num

\* grid_pos that accepts column 0 and row 0.
grid_pos_accepts_line_zero(b, x, y, dis_scale) ==
    LET pos_from_grid == Point(x - b.padding, y - b.padding)
        col == f32_round_div(pos_from_grid.x, b.cell_size)
        row == f32_round_div(pos_from_grid.y, b.cell_size)
    IN  IF col >= 0 /\ row >= 0 /\ valid_pos(b, col, row)
        THEN IF f32_too_far(pos_from_grid.x - col * b.cell_size,
                            pos_from_grid.y - row * b.cell_size,
                            b.cell_size, dis_scale)
             THEN None
             ELSE Some(Point(col, row))
        ELSE None

grid_pos(b, x, y, dis_scale) ==
    LET pos_from_grid == Point(x - b.padding, y - b.padding)
        col == f32_round_div(pos_from_grid.x, b.cell_size)
        row == f32_round_div(pos_from_grid.y, b.cell_size)
    IN  IF col > 0 /\ row > 0 /\ valid_pos(b, col, row)
        THEN IF f32_too_far(pos_from_grid.x - col * b.cell_size,
                            pos_from_grid.y - row * b.cell_size,
                            b.cell_size, dis_scale)
             THEN None
             ELSE Some(Point(col, row))
        ELSE None

\* The tolerance the click and hover handlers pass: 0.6.
ClickTolerance == [num |-> 6, den |-> 10]

\* The on_click closure of canvas::Program::update, for a cursor at (x, y)
\* inside the canvas: the index of the Message::ClickBoard it emits, if any.
on_click(b, x, y) ==
    LET hit == grid_pos(b, x, y, ClickTolerance)
    IN  IF hit.some THEN Some(pos_to_index(b, hit.value)) ELSE None

----------------------------------------------------------------------------
(* GomokuGame. *)

GomokuGame_new == [board |-> Board_default, state |-> "WaitBlack"]

\* update without the is_empty_at gate.
update_ungated(g, index) ==
    LET put == IF g.state \in {"WaitBlack", "WaitWhite"}
               THEN put_chess(g.board, index, g.state = "WaitBlack")
               ELSE Ok(g.board)
        state_after ==
            IF put.panic # "none" THEN g.state
            ELSE IF g.state = "WaitBlack" THEN "WaitWhite"
            ELSE IF g.state = "WaitWhite" THEN "WaitBlack"
            ELSE g.state
    IN  [board |-> put.board, state |-> state_after, panic |-> put.panic]

\* update that leaves the transient Check state in self.state.
update_stays_in_check(g, index) ==
    LET placing == is_empty_at(g.board, index) /\ g.state \in {"WaitBlack", "WaitWhite"}
        put == IF placing
               THEN put_chess(g.board, index, g.state = "WaitBlack")
               ELSE Ok(g.board)
        state_after ==
            IF ~placing \/ put.panic # "none" THEN g.state
            ELSE IF g.state = "WaitBlack" THEN "CheckBlack" ELSE "CheckWhite"
    IN  [board |-> put.board, state |-> state_after, panic |-> put.panic]

\* update that hands the turn over on every click, placed or not.
update_flips_always(g, index) ==
    LET placing == is_empty_at(g.board, index) /\ g.state \in {"WaitBlack", "WaitWhite"}
        put == IF placing
               THEN put_chess(g.board, index, g.state = "WaitBlack")
               ELSE Ok(g.board)
        state_after ==
            IF put.panic # "none" THEN g.state
            ELSE IF g.state = "WaitBlack" THEN "WaitWhite"
            ELSE IF g.state = "WaitWhite" THEN "WaitBlack"
            ELSE g.state
    IN  [board |-> put.board, state |-> state_after, panic |-> put.panic]

\* update that handles clicks for Black only.
update_ignores_white(g, index) ==
    LET placing == is_empty_at(g.board, index) /\ g.state = "WaitBlack"
        put == IF placing THEN put_chess(g.board, index, TRUE) ELSE Ok(g.board)
        state_after == IF placing /\ put.panic = "none" THEN "WaitWhite" ELSE g.state
    IN  [board |-> put.board, state |-> state_after, panic |-> put.panic]

\* update that places the piece and never hands the turn over.
update_keeps_turn(g, index) ==
    LET put == IF is_empty_at(g.board, index) /\ g.state \in {"WaitBlack", "WaitWhite"}
               THEN put_chess(g.board, index, g.state = "WaitBlack")
               ELSE Ok(g.board)
    IN  [board |-> put.board, state |-> g.state, panic |-> put.panic]

\* GomokuGame::update(Message::ClickBoard(index)).  A panic inside put_chess
\* unwinds out of update before next_state is read.
update(g, index) ==
    LET step ==
            IF is_empty_at(g.board, index)
            THEN IF g.state = "WaitBlack"
                 THEN [put |-> put_chess(g.board, index, TRUE), next_state |-> "CheckBlack"]
                 ELSE IF g.state = "WaitWhite"
                 THEN [put |-> put_chess(g.board, index, FALSE), next_state |-> "CheckWhite"]
                 ELSE [put |-> Ok(g.board), next_state |-> "None"]
            ELSE [put |-> Ok(g.board), next_state |-> "None"]
        state_after ==
            IF step.put.panic # "none" THEN g.state
            ELSE IF step.next_state = "CheckBlack" THEN "WaitWhite"
            ELSE IF step.next_state = "CheckWhite" THEN "WaitBlack"
            ELSE g.state
    IN  [board |-> step.put.board, state |-> state_after, panic |-> step.put.panic]

----------------------------------------------------------------------------
(* State.                                                                   *)
(*   board, state : the fields of GomokuGame                                *)
(*   panic        : "none", or the panic that ended the process             *)
(*   last         : the last call made on the game or its board, with the   *)
(*                  board and turn state it was made on                     *)
(*   undone       : after a remove_last_chess made right after a put_chess, *)
(*                  that put_chess call; NoCall otherwise                   *)
(*   probe        : the last call of a pure Board function and its result   *)

Call(op, index, is_black) ==
    [op |-> op, index |-> index, is_black |-> is_black,
     board |-> board, state |-> state]

NoCall ==
    [op |-> "none", index |-> 0, is_black |-> FALSE,
     board |-> GomokuGame_new.board, state |-> GomokuGame_new.state]

NoProbe == [fn |-> "none", x |-> 0, y |-> 0, result |-> None]

Init ==
    /\ board = GomokuGame_new.board
    /\ state = GomokuGame_new.state
    /\ panic = "none"
    /\ last = [op |-> "new", index |-> 0, is_black |-> FALSE,
               board |-> GomokuGame_new.board, state |-> GomokuGame_new.state]
    /\ undone = NoCall
    /\ probe = NoProbe

\* The runtime delivers Message::ClickBoard(index) to GomokuGame::update.
ClickBoard(index) ==
    /\ panic = "none"
    /\ is_empty_at(board, index) => Len(board.chesses) < MaxChesses
    /\ LET r == update([board |-> board, state |-> state], index)
       IN  /\ board' = r.board
           /\ state' = r.state
           /\ panic' = r.panic
    /\ last' = Call("update", index, state = "WaitBlack")
    /\ undone' = NoCall
    /\ UNCHANGED probe

\* A pointer press at (x, y): on_click hit-tests it and, on a hit, the runtime
\* delivers the Message::ClickBoard it emits to GomokuGame::update.  probe
\* keeps the press and the grid position grid_pos gave for it.
Press(x, y) ==
    /\ panic = "none"
    /\ LET message == on_click(board, x, y)
       IN  IF message.some
           THEN /\ is_empty_at(board, message.value) => Len(board.chesses) < MaxChesses
                /\ LET r == update([board |-> board, state |-> state], message.value)
                   IN  /\ board' = r.board
                       /\ state' = r.state
                       /\ panic' = r.panic
                /\ last' = Call("on_click", message.value, state = "WaitBlack")
           ELSE /\ UNCHANGED <<board, state, panic>>
                /\ last' = Call("on_click", 0, state = "WaitBlack")
    /\ probe' = [fn |-> "on_click", x |-> x, y |-> y,
                 result |-> grid_pos(board, x, y, ClickTolerance)]
    /\ undone' = NoCall

\* Message::ClickBoard(index) delivered to GomokuGame::update in a game that
\* is played to the end: no bound on the length of the history.
FillClick(index) ==
    /\ panic = "none"
    /\ LET r == update([board |-> board, state |-> state], index)
       IN  /\ board' = r.board
           /\ state' = r.state
           /\ panic' = r.panic
    /\ last' = Call("update", index, state = "WaitBlack")
    /\ undone' = NoCall
    /\ UNCHANGED probe

\* Board::put_chess called directly, by a caller that keeps the occupancy
\* precondition (is_empty_at) for the indices that are on the board.
PutChess(index, is_black) ==
    /\ panic = "none"
    /\ valid_index(board, index) =>
          is_empty_at(board, index) /\ Len(board.chesses) < MaxChesses
    /\ LET r == put_chess(board, index, is_black)
       IN  /\ board' = r.board
           /\ panic' = r.panic
    /\ last' = Call("put_chess", index, is_black)
    /\ undone' = NoCall
    /\ UNCHANGED <<state, probe>>

\* Board::put_chess called directly on an occupied cell: put_chess itself
\* makes no occupancy check.
PutChessOccupied(index, is_black) ==
    /\ panic = "none"
    /\ valid_index(board, index)
    /\ ~is_empty_at(board, index)
    /\ Len(board.chesses) < MaxChesses
    /\ LET r == put_chess(board, index, is_black)
       IN  /\ board' = r.board
           /\ panic' = r.panic
    /\ last' = Call("put_chess", index, is_black)
    /\ undone' = NoCall
    /\ UNCHANGED <<state, probe>>

\* Board::remove_last_chess called directly, on any history.
RemoveLastChess ==
    /\ panic = "none"
    /\ LET r == remove_last_chess(board)
       IN  /\ board' = r.board
           /\ panic' = r.panic
    /\ last' = Call("remove_last_chess", 0, FALSE)
    /\ undone' = IF last.op = "put_chess" THEN last ELSE NoCall
    /\ UNCHANGED <<state, probe>>

\* Board::clear called directly.
Clear ==
    /\ panic = "none"
    /\ LET r == clear(board)
       IN  /\ board' = r.board
           /\ panic' = r.panic
    /\ last' = Call("clear", 0, FALSE)
    /\ undone' = NoCall
    /\ UNCHANGED <<state, probe>>

\* The runtime repaints the canvas: Board::draw.
Draw ==
    /\ panic = "none"
    /\ board' = draw(board)
    /\ UNCHANGED <<state, panic, last, undone, probe>>

\* Pure functions of the board, each applied once to an input drawn from a
\* bounded set (the calls are independent of one another).
HitTest(x, y) ==
    /\ probe = NoProbe
    /\ probe' = [fn |-> "grid_pos", x |-> x, y |-> y,
                 result |-> grid_pos(board, x, y, ClickTolerance)]
    /\ UNCHANGED <<board, state, panic, last, undone>>

IndexToPos(index) ==
    /\ probe = NoProbe
    /\ probe' = [fn |-> "index_to_pos", x |-> index, y |-> 0,
                 result |-> Some(index_to_pos(board, index))]
    /\ UNCHANGED <<board, state, panic, last, undone>>

PosToIndex(col, row) ==
    /\ probe = NoProbe
    /\ probe' = [fn |-> "pos_to_index", x |-> col, y |-> row,
                 result |-> Some(pos_to_index(board, Point(col, row)))]
    /\ UNCHANGED <<board, state, panic, last, undone>>

\* The board API: clicks, direct Board calls and repaints.
Next ==
    \/ \E index \in Indices : ClickBoard(index)
    \/ \E index \in Indices, is_black \in BOOLEAN : PutChess(index, is_black)
    \/ RemoveLastChess
    \/ Clear
    \/ Draw

Spec == Init /\ [][Next]_vars

\* The board API with callers that do not keep put_chess's precondition.
NextUnchecked ==
    \/ Next
    \/ \E index \in Indices, is_black \in BOOLEAN : PutChessOccupied(index, is_black)

SpecUnchecked == Init /\ [][NextUnchecked]_vars

\* The running application: only clicks and repaints.
NextClick ==
    \/ \E index \in Indices : ClickBoard(index)
    \/ Draw

SpecClick == Init /\ [][NextClick]_vars

\* The running application driven by the pointer: presses and repaints.
NextPress ==
    \/ \E x \in PressCoords, y \in PressCoords : Press(x, y)
    \/ Draw

SpecPress == Init /\ [][NextPress]_vars

\* A game in which the players fill the board cell by cell, in index order:
\* each click is on the first cell (occupied after the first move) or on the
\* index after the last one placed (past the board once it is full).
NextFill ==
    \/ \E index \in {0, Len(board.chesses)} : FillClick(index)
    \/ Draw

SpecFill == Init /\ [][NextFill]_vars

\* The pure functions on their own.
NextPure ==
    /\ probe = NoProbe
    /\ \/ \E x \in Pixels, y \in Pixels : HitTest(x, y)
       \/ \E index \in 0..(Board_default.cells_per_row * Board_default.cells_per_row + MaxBeyond) :
             IndexToPos(index)
       \/ \E col \in 0..(Board_default.cells_per_row + MaxBeyond),
             row \in 0..(Board_default.cells_per_row + MaxBeyond) : PosToIndex(col, row)

SpecPure == Init /\ [][NextPure]_vars

----------------------------------------------------------------------------
(* Properties. *)

Colors == {"Black", "White"}

ColorOf(is_black) == IF is_black THEN "Black" ELSE "White"

NonEmpty(b) == {i \in DOMAIN b.cells : b.cells[i] # "Empty"}

CellsOf(b, color) == {i \in DOMAIN b.cells : b.cells[i] = color}

\* The moves of the history placed at the position of cell i.
MovesAt(b, i) ==
    {k \in 1..Len(b.chesses) : b.chesses[k].pos = index_to_pos(b, i)}

SameGeometry(b1, b2) ==
    /\ b1.padding = b2.padding
    /\ b1.cell_size = b2.cell_size
    /\ b1.chess_size = b2.chess_size
    /\ b1.line_width = b2.line_width
    /\ b1.grid_size = b2.grid_size
    /\ b1.cells_per_row = b2.cells_per_row

\* C1 (invariant I2): under clicks, put_chess on empty cells, remove_last_chess
\* and clear, the length of the move history equals the number of non-Empty
\* cells.
C1_HistoryLenIsOccupancy ==
    Len(board.chesses) = Cardinality(NonEmpty(board))

\* C1 witness: two pieces are left on the board after a remove_last_chess.
C1_Witness ==
    /\ last.op = "remove_last_chess"
    /\ panic = "none"
    /\ Len(board.chesses) = 2
    /\ Cardinality(NonEmpty(board)) = 2

\* C2 (invariant I1): a cell holds color c iff exactly one move of the history
\* is at the cell's position and that move has color c; a cell is Empty iff no
\* move is at its position; no position occurs twice in the history.
C2_CellsMirrorHistory ==
    /\ \A i \in DOMAIN board.cells :
          /\ \A c \in Colors :
                board.cells[i] = c <=>
                    /\ Cardinality(MovesAt(board, i)) = 1
                    /\ \A k \in MovesAt(board, i) : board.chesses[k].color = c
          /\ board.cells[i] = "Empty" <=> MovesAt(board, i) = {}
    /\ \A j, k \in 1..Len(board.chesses) :
          board.chesses[j].pos = board.chesses[k].pos => j = k

\* C2 witness: a Black and a White piece are on the board, cell 20 = (5, 1)
\* among them.
C2_Witness ==
    /\ board.cells[20] = "White"
    /\ board.cells[224] = "Black"
    /\ Len(board.chesses) = 2

\* C3 (turn alternation): with clicks only, a click on an empty cell in
\* WaitBlack places Black and leaves WaitWhite, one in WaitWhite places White
\* and leaves WaitBlack; the k-th move is Black exactly when k is odd, the
\* state is WaitBlack exactly when the history length is even, and there are
\* as many Black cells as White ones, or one more.
C3_TurnsAlternate ==
    /\ (last.op = "update" /\ is_empty_at(last.board, last.index)) =>
          /\ last.state = "WaitBlack" =>
                board.cells[last.index] = "Black" /\ state = "WaitWhite"
          /\ last.state = "WaitWhite" =>
                board.cells[last.index] = "White" /\ state = "WaitBlack"
    /\ \A k \in 1..Len(board.chesses) :
          board.chesses[k].color = "Black" <=> k % 2 = 1
    /\ state = "WaitBlack" <=> Len(board.chesses) % 2 = 0
    /\ Cardinality(CellsOf(board, "Black")) - Cardinality(CellsOf(board, "White"))
          \in {0, 1}

\* C3 witness: Black, White, Black have been placed by clicks and White is
\* awaited.
C3_Witness ==
    /\ last.op = "update"
    /\ Len(board.chesses) = 3
    /\ state = "WaitWhite"
    /\ board.cells[last.index] = "Black"

\* C4 (occupied-cell no-op): a ClickBoard on an occupied cell leaves the cells,
\* the move history and the turn state as they were.
C4_OccupiedClickIsNoOp ==
    (/\ last.op = "update"
     /\ valid_index(last.board, last.index)
     /\ last.board.cells[last.index] # "Empty") =>
        /\ board.cells = last.board.cells
        /\ board.chesses = last.board.chesses
        /\ state = last.state
        /\ panic = "none"

\* C4 witness: the last click was on an occupied cell.
C4_Witness ==
    /\ last.op = "update"
    /\ valid_index(last.board, last.index)
    /\ last.board.cells[last.index] # "Empty"
    /\ Len(board.chesses) = 2

\* The board that Board::clear must leave: every cell Empty, no history, the
\* geometry of the board it was called on.
ClearedFrom(b0) ==
    /\ \A i \in DOMAIN b0.cells : is_empty_at(board, i)
    /\ board.chesses = <<>>
    /\ SameGeometry(board, b0)

\* C5 as stated (clear resets fully): after clear every valid cell is empty,
\* the history is empty, the geometry is unchanged and the turn state is
\* WaitBlack.
C5_ClearResetsTurn ==
    last.op = "clear" => ClearedFrom(last.board) /\ state = "WaitBlack"

\* C5 amended: after clear every valid cell is empty, the history is empty and
\* the geometry is unchanged; the turn state is the one before the call
\* (Board::clear does not reach GomokuGame::state).
C5_ClearResetsBoardOnly ==
    last.op = "clear" => ClearedFrom(last.board) /\ state = last.state

\* C5 witness: clear was called on a board with pieces while White was awaited.
C5_Witness ==
    /\ last.op = "clear"
    /\ last.state = "WaitWhite"
    /\ Len(last.board.chesses) = 2
    /\ board.chesses = <<>>

\* C6 (occupancy round trip): put_chess(i, c) on an empty cell i leaves i
\* occupied with c; a remove_last_chess made right after it leaves i empty and
\* cells and history as they were before the put_chess.
C6_PutRemoveRoundTrip ==
    /\ (last.op = "put_chess" /\ is_empty_at(last.board, last.index)) =>
          /\ ~is_empty_at(board, last.index)
          /\ board.cells[last.index] = ColorOf(last.is_black)
    /\ (/\ last.op = "remove_last_chess"
        /\ undone.op = "put_chess"
        /\ is_empty_at(undone.board, undone.index)) =>
          /\ is_empty_at(board, undone.index)
          /\ board.cells = undone.board.cells
          /\ board.chesses = undone.board.chesses

\* C6 witness: a put_chess on cell 20 of a board with one piece was undone.
C6_Witness ==
    /\ last.op = "remove_last_chess"
    /\ undone.op = "put_chess"
    /\ undone.index = 20
    /\ Len(undone.board.chesses) = 1
    /\ is_empty_at(undone.board, undone.index)
    /\ ~is_empty_at(last.board, undone.index)
    /\ panic = "none"

\* C7 (EmptyHistory): remove_last_chess on an empty history panics and changes
\* neither the cells nor the history; on a non-empty history it does not
\* panic.
C7_RemoveOnEmptyPanics ==
    last.op = "remove_last_chess" =>
        /\ Len(last.board.chesses) = 0 =>
              /\ panic # "none"
              /\ board.cells = last.board.cells
              /\ board.chesses = <<>>
        /\ Len(last.board.chesses) > 0 => panic = "none"

\* C7 witness: remove_last_chess was called on an empty history and panicked.
C7_Witness ==
    /\ last.op = "remove_last_chess"
    /\ Len(last.board.chesses) = 0
    /\ panic # "none"

\* C8 (OutOfRange): put_chess panics exactly when index >= cells_per_row^2,
\* and then it has changed neither the cells nor the history.
C8_PutOutOfRangePanics ==
    last.op = "put_chess" =>
        LET capacity == last.board.cells_per_row * last.board.cells_per_row
        IN  /\ panic # "none" <=> last.index >= capacity
            /\ last.index >= capacity =>
                  /\ board.cells = last.board.cells
                  /\ board.chesses = last.board.chesses

\* C8 witness: put_chess was called with the first index past the board, on a
\* board with a piece.
C8_Witness ==
    /\ last.op = "put_chess"
    /\ last.index = 225
    /\ Len(last.board.chesses) = 1
    /\ panic # "none"

\* d / s rounds to c (half away from zero), for s > 0.
RoundsTo(d, s, c) ==
    IF d >= 0 THEN 2 * s * c - s <= 2 * d /\ 2 * d < 2 * s * c + s
              ELSE 2 * s * c - s < 2 * d /\ 2 * d <= 2 * s * c + s

\* With padding 45, cell_size 48 and tolerance 0.6: (col, row) is the rounded
\* grid position of pixel (x, y), it is within 1..cells_per_row both ways and
\* twice the distance to the intersection is at most 28.8.
Hits(x, y, col, row) ==
    /\ RoundsTo(x - 45, 48, col)
    /\ RoundsTo(y - 45, 48, row)
    /\ col > 0 /\ row > 0
    /\ col <= 15 /\ row <= 15
    /\ 100 * 4 * ((x - 45 - 48 * col) * (x - 45 - 48 * col)
                  + (y - 45 - 48 * row) * (y - 45 - 48 * row)) <= 288 * 288

\* C9 (hit test): grid_pos(x, y, 0.6) is Some((col, row)) exactly when (col,
\* row) is the rounded grid position, both are in 1..cells_per_row and the
\* pixel is within 14.4 px of the intersection; otherwise None.  (93, 93) hits
\* (1, 1), (123, 93) and (45, 45) miss; the board is not changed.
C9_HitTest ==
    probe.fn = "grid_pos" =>
        /\ \A col, row \in (0 - 1)..17 :
              probe.result = Some(Point(col, row)) <=> Hits(probe.x, probe.y, col, row)
        /\ probe.result = None <=>
              ~ \E col, row \in (0 - 1)..17 : Hits(probe.x, probe.y, col, row)
        /\ (probe.x = 93 /\ probe.y = 93) => probe.result = Some(Point(1, 1))
        /\ (probe.x = 123 /\ probe.y = 93) => probe.result = None
        /\ (probe.x = 45 /\ probe.y = 45) => probe.result = None
        /\ board = Board_default

\* C9 witness: a pixel 10 px right of and 10 px below intersection (1, 1) hits
\* it.
C9_Witness ==
    /\ probe.fn = "grid_pos"
    /\ probe.x = 103
    /\ probe.y = 103
    /\ probe.result = Some(Point(1, 1))

\* C10 (index <-> position): for a valid index i, pos_to_index(index_to_pos(i))
\* = i and the position is on the board; for col, row < cells_per_row,
\* index_to_pos(pos_to_index((col, row))) = (col, row) and the index is
\* col + row * cells_per_row.
C10_IndexPosInverse ==
    /\ (probe.fn = "index_to_pos" /\ probe.x < 15 * 15) =>
          /\ pos_to_index(board, probe.result.value) = probe.x
          /\ probe.result.value.x < 15
          /\ probe.result.value.y < 15
    /\ (probe.fn = "pos_to_index" /\ probe.x < 15 /\ probe.y < 15) =>
          /\ index_to_pos(board, probe.result.value) = Point(probe.x, probe.y)
          /\ probe.result.value = probe.x + probe.y * 15

\* C10 witness: index 20 was mapped to position (5, 1).
C10_Witness ==
    /\ probe.fn = "index_to_pos"
    /\ probe.x = 20
    /\ probe.result = Some(Point(5, 1))

\* A press that was hit-tested to a grid position and led to a placement.
PressPlaced ==
    /\ last.op = "on_click"
    /\ probe.fn = "on_click"
    /\ probe.result.some
    /\ Len(board.chesses) = Len(last.board.chesses) + 1

\* C11 (click-to-cell fidelity): when a press is hit-tested to (col, row) and
\* leads to a placement, the move appended has position (col, row) and the
\* cell that becomes occupied is the one at column col, row row, also for
\* col = cells_per_row or row = cells_per_row.
C11_PlacedWhereClicked ==
    PressPlaced =>
        /\ board.chesses[Len(board.chesses)].pos = probe.result.value
        /\ \A i \in DOMAIN board.cells :
              (board.cells[i] # "Empty" /\ last.board.cells[i] = "Empty") =>
                  /\ i % 15 = probe.result.value.x
                  /\ i \div 15 = probe.result.value.y

\* C11: a press on the one-past-the-end column (15, 1) placed a piece.
C11_WrappedPress ==
    /\ PressPlaced
    /\ probe.result.value = Point(15, 1)

\* C12 (first row and column unreachable by click): under pointer presses
\* only, every cell of row 0 and of column 0 is Empty and no move of the
\* history has col = 0 or row = 0.
C12_FirstLinesStayEmpty ==
    /\ \A i \in DOMAIN board.cells :
          (i \div 15 = 0 \/ i % 15 = 0) => board.cells[i] = "Empty"
    /\ \A k \in 1..Len(board.chesses) :
          board.chesses[k].pos.x # 0 /\ board.chesses[k].pos.y # 0

\* C12, the part the code keeps: row 0 is never reached by a press.
C12_FirstRowStaysEmpty ==
    /\ \A i \in DOMAIN board.cells : i \div 15 = 0 => board.cells[i] = "Empty"
    /\ \A k \in 1..Len(board.chesses) : board.chesses[k].pos.y # 0

\* C13 (the click path never faults): update never panics, whatever the
\* index; it places a piece only on an index that was valid and Empty, and a
\* click with an out-of-range index leaves cells, history and turn state
\* unchanged.
C13_ClickNeverPanics ==
    last.op = "update" =>
        /\ panic = "none"
        /\ board.chesses # last.board.chesses =>
              /\ last.index < 15 * 15
              /\ last.board.cells[last.index] = "Empty"
        /\ last.index >= 15 * 15 =>
              /\ board.cells = last.board.cells
              /\ board.chesses = last.board.chesses
              /\ state = last.state

\* C13 witness: ClickBoard(240), the index of grid position (15, 15), was
\* handled on a board with pieces.
C13_Witness ==
    /\ last.op = "update"
    /\ last.index = 240
    /\ Len(last.board.chesses) = 2
    /\ panic = "none"

\* C14 (Check states are never observable): after new() and after every
\* completed update the turn state is WaitBlack or WaitWhite.
C14_NeverInCheck == state \in {"WaitBlack", "WaitWhite"}

\* C14 witness: an update has just placed a Black piece, passing through
\* CheckBlack, and White is awaited.
C14_Witness ==
    /\ last.op = "update"
    /\ last.state = "WaitBlack"
    /\ Len(board.chesses) = Len(last.board.chesses) + 1
    /\ state = "WaitWhite"

\* The color awaited in a turn state.
Awaited(s) == IF s = "WaitBlack" THEN "Black" ELSE IF s = "WaitWhite" THEN "White" ELSE "none"

\* C15 (the turn state changes only by a successful move): an update step
\* changes the turn state iff it appended exactly one move, of the color that
\* was awaited; it never appends more than one move and never removes one.
C15_TurnChangesOnlyByMove ==
    last.op = "update" =>
        LET before == Len(last.board.chesses)
            after == Len(board.chesses)
        IN  /\ after \in {before, before + 1}
            /\ SubSeq(board.chesses, 1, before) = last.board.chesses
            /\ state # last.state <=>
                  /\ after = before + 1
                  /\ board.chesses[after].color = Awaited(last.state)

\* C15 witness: a click placed White's move and handed the turn to Black.
C15_Witness ==
    /\ last.op = "update"
    /\ last.state = "WaitWhite"
    /\ state = "WaitBlack"
    /\ Len(board.chesses) = Len(last.board.chesses) + 1
    /\ board.chesses[Len(board.chesses)].color = "White"

\* put_chess was called on a valid index whose cell was occupied.
DuplicatePut(call) ==
    /\ call.op = "put_chess"
    /\ call.index < 15 * 15
    /\ call.board.cells[call.index] # "Empty"

\* C16 (unchecked duplicate placement): put_chess(i, c) on a valid, occupied
\* index does not panic; it appends a move at index_to_pos(i) and overwrites
\* cells[i] with c, so the history grows by one while the number of non-Empty
\* cells stays (one more move than cell where I2 held before) and two moves
\* share a position; a remove_last_chess right after it leaves cells[i] Empty
\* while an earlier move at that position is still in the history.
C16_DuplicatePutDesynchronizes ==
    /\ DuplicatePut(last) =>
          /\ panic = "none"
          /\ board.chesses =
                Append(last.board.chesses,
                       [pos |-> Point(last.index % 15, last.index \div 15),
                        color |-> ColorOf(last.is_black)])
          /\ board.cells = [last.board.cells EXCEPT ![last.index] = ColorOf(last.is_black)]
          /\ Cardinality(NonEmpty(board)) = Cardinality(NonEmpty(last.board))
          /\ Len(last.board.chesses) = Cardinality(NonEmpty(last.board)) =>
                Len(board.chesses) = Cardinality(NonEmpty(board)) + 1
          /\ \E j, k \in 1..Len(board.chesses) :
                j < k /\ board.chesses[j].pos = board.chesses[k].pos
    /\ (last.op = "remove_last_chess" /\ DuplicatePut(undone)) =>
          /\ board.cells[undone.index] = "Empty"
          /\ \E k \in 1..Len(board.chesses) :
                board.chesses[k].pos = Point(undone.index % 15, undone.index \div 15)

\* C16 witness: White was put on cell 20, Black was put on the same cell and
\* that second put_chess was undone.
C16_Witness ==
    /\ last.op = "remove_last_chess"
    /\ DuplicatePut(undone)
    /\ undone.index = 20
    /\ undone.is_black
    /\ undone.board.cells[20] = "White"
    /\ Len(undone.board.chesses) = Cardinality(NonEmpty(undone.board))
    /\ Len(board.chesses) = 1

\* C17 (remove_last_chess frame): on a non-empty history remove_last_chess
\* removes exactly the last move, sets exactly that move's cell to Empty,
\* leaves the other cells and the earlier moves as they were, and leaves the
\* turn state unchanged.
C17_RemoveTouchesLastMoveOnly ==
    (last.op = "remove_last_chess" /\ Len(last.board.chesses) > 0) =>
        LET n == Len(last.board.chesses)
            removed == last.board.chesses[n]
        IN  /\ panic = "none"
            /\ board.chesses = SubSeq(last.board.chesses, 1, n - 1)
            /\ board.cells =
                  [last.board.cells EXCEPT ![removed.pos.x + removed.pos.y * 15] = "Empty"]
            /\ state = last.state

\* C17 witness: after Black's click and a put_chess on another cell, the
\* second move was removed while White was awaited; the turn stays White's.
C17_Witness ==
    /\ last.op = "remove_last_chess"
    /\ Len(last.board.chesses) = 2
    /\ last.board.chesses[1].pos # last.board.chesses[2].pos
    /\ last.state = "WaitWhite"
    /\ state = "WaitWhite"
    /\ Len(board.chesses) = 1

\* ClickBoard(index) would be accepted now: it places a piece and flips the
\* turn state.
Accepted(index) ==
    LET r == update([board |-> board, state |-> state], index)
    IN  /\ Len(r.board.chesses) = Len(board.chesses) + 1
        /\ r.state # state

\* The indices a ClickBoard message can carry, up to pos_to_index((15, 15)).
ClickableIndices == 0..(15 * 15 + 15)

\* C18 as stated (no terminal state): in every state reachable by clicks some
\* ClickBoard index is accepted.
C18_SomeClickAccepted == \E index \in ClickableIndices : Accepted(index)

\* C18 amended: some ClickBoard index is accepted exactly as long as a cell is
\* Empty; on the full board every click is a no-op.
C18_SomeClickAcceptedUntilFull ==
    (\E index \in ClickableIndices : Accepted(index))
        <=> (\E i \in DOMAIN board.cells : board.cells[i] = "Empty")

\* C18 witness: the board is full and the last click changed nothing.
C18_Witness ==
    /\ Len(board.chesses) = 15 * 15
    /\ NonEmpty(board) = DOMAIN board.cells
    /\ last.op = "update"
    /\ last.board.chesses = board.chesses
    /\ last.state = state

====
